---- MODULE Spec2Model ----
(***************************************************************************)
(* Model of toolwiki.py: the in-memory tool catalog and category list, the *)
(* JSON data file written by DataManager.save_data with its rotating       *)
(* backups, ToolManager's add/update/delete, and SearchEngine.search_tools *)
(* with its four matching strategies and the relevance sort.               *)
(*                                                                         *)
(* A Python str is a sequence of one-character strings, a tool dict is a   *)
(* function from its keys to values (so a key such as "_search_score" is   *)
(* present or absent), a list is a sequence.                               *)
(***************************************************************************)
EXTENDS Integers, Sequences, FiniteSets, TLC

VARIABLES
    tools,       \* data_manager.data["tools"]: the list of tool dicts in memory
    categories,  \* data_manager.data["categories"]: the list of category names in memory
    data_file,   \* the "tools" array of the JSON document last written to data/tools.json
    file_exists, \* DATA_FILE.exists()
    backups,     \* the tools_backup_<timestamp>.json files in BACKUP_DIR, by timestamp
    now,         \* datetime.now(), in whole seconds
    config,      \* data_manager.config
    next_id,     \* the number of ids uuid.uuid4() has handed out, plus one
    HAS_FUZZY,   \* module flag: a similarity library (rapidfuzz/fuzzywuzzy) was imported
    call,        \* the call whose result the caller holds, or NoCall
    ret,         \* what that call handed back: the value returned, what was raised, what was printed
    menu,        \* the MenuInterface: self.running, the prompt it is at, the handler's locals
    stdin        \* standard input: whether end-of-file was reached, and at which prompt

vars == <<tools, categories, data_file, file_exists, backups, now, config, next_id,
          HAS_FUZZY, call, ret, menu, stdin>>

\* the interactive session
session == <<menu, stdin>>

----------------------------------------------------------------------------
(* Bounds of the model *)

\* longest catalog drawn in Init
MaxTools == 2
\* largest value of the limit argument drawn by Search (the smallest is -1)
MaxLimit == 2
\* most tools add_tool builds in one run
MaxAdds == 2
\* most backup files a start finds in BACKUP_DIR
MaxOld == 2
\* most seconds that pass in one run
MaxTicks == 2
\* largest backup_retention a configuration sets (the smallest is 0)
MaxRetention == 2

----------------------------------------------------------------------------
(* Strings *)

Max(a, b) == IF a >= b THEN a ELSE b
Min(a, b) == IF a <= b THEN a ELSE b

\* str.lower() on one character, for the letters the model's strings use
LowerChar(c) ==
    CASE c = "N" -> "n"
      [] c = "M" -> "m"
      [] c = "A" -> "a"
      [] c = "P" -> "p"
      [] c = "S" -> "s"
      [] c = "W" -> "w"
      [] c = "Q" -> "q"
      [] c = "Y" -> "y"
      [] OTHER -> c

\* str.lower()
Lower(s) == [i \in 1..Len(s) |-> LowerChar(s[i])]

\* Python's `q in t` on strings: q is a contiguous substring of t
Contains(t, q) ==
    \E i \in 0..(Len(t) - Len(q)) : SubSeq(t, i + 1, i + Len(q)) = q

\* length of a longest common subsequence of a and b
RECURSIVE LCS(_, _)
LCS(a, b) ==
    IF a = <<>> \/ b = <<>> THEN 0
    ELSE IF Head(a) = Head(b) THEN 1 + LCS(Tail(a), Tail(b))
    ELSE Max(LCS(Tail(a), b), LCS(a, Tail(b)))

\* fuzz.ratio: the normalized Indel similarity 100 * 2*LCS / (len(a) + len(b)),
\* as a whole number of points (rounded down)
Ratio(a, b) ==
    IF Len(a) + Len(b) = 0 THEN 100
    ELSE (200 * LCS(a, b)) \div (Len(a) + Len(b))

RECURSIVE MaxOf(_)
\* max() of a non-empty finite set of integers
MaxOf(S) ==
    LET x == CHOOSE y \in S : TRUE
    IN  IF S = {x} THEN x ELSE Max(x, MaxOf(S \ {x}))

\* The substrings of `long` that an alignment of a needle of length n is scored
\* against: every window of length n, and the shorter windows that overhang
\* the start or the end of `long`.
Windows(long, n) ==
    { SubSeq(long, i, j) : <<i, j>> \in
        { w \in (1..Len(long)) \X (1..Len(long)) :
            /\ w[1] <= w[2]
            /\ w[2] - w[1] + 1 <= n
            /\ (w[2] - w[1] + 1 = n \/ w[1] = 1 \/ w[2] = Len(long)) } }

\* fuzz.partial_ratio(s1, s2), the call of line 384 into the similarity library
\* (rapidfuzz is imported first): the best fuzz.ratio of the shorter string
\* against an alignment window of the longer one.  Equal strings, and a shorter
\* string contained in the longer one, score 100.
PartialRatio(s1, s2) ==
    LET short == IF Len(s1) <= Len(s2) THEN s1 ELSE s2
        long  == IF Len(s1) <= Len(s2) THEN s2 ELSE s1
    IN  IF short = <<>> THEN (IF long = <<>> THEN 100 ELSE 0)
        ELSE MaxOf({ Ratio(short, w) : w \in Windows(long, Len(short)) })

----------------------------------------------------------------------------
(* Regular expressions: re.compile(pattern, re.IGNORECASE) and regex.search,
   for patterns made of literal characters, "." and ( ) groups *)

RECURSIVE ParenDepths(_, _)
\* the nesting depth after each character of the pattern p, starting from depth d
ParenDepths(p, d) ==
    IF p = <<>> THEN <<>>
    ELSE LET d1 == CASE Head(p) = "(" -> d + 1
                      [] Head(p) = ")" -> d - 1
                      [] OTHER -> d
         IN  <<d1>> \o ParenDepths(Tail(p), d1)

\* re.compile succeeds: no ")" without its "(", and every "(" is closed;
\* otherwise it raises re.error
RegexCompiles(p) ==
    LET ds == ParenDepths(p, 0)
    IN  /\ \A i \in 1..Len(ds) : ds[i] >= 0
        /\ (ds = <<>> \/ ds[Len(ds)] = 0)

\* the pattern's atoms in order (a group without a quantifier only groups)
RegexAtoms(p) == SelectSeq(p, LAMBDA c : c \notin {"(", ")"})

\* regex.search(text) is not None, under re.IGNORECASE
RegexSearch(p, text) ==
    LET atoms == RegexAtoms(p)
    IN  \E i \in 0..(Len(text) - Len(atoms)) :
            \A k \in 1..Len(atoms) :
                \/ atoms[k] = "."
                \/ LowerChar(atoms[k]) = LowerChar(text[i + k])

----------------------------------------------------------------------------
(* The strings of the model *)

Empty == <<>>
Space == <<" ">>
S_nmap == <<"n", "m", "a", "p">>
S_MAP == <<"M", "A", "P">>
S_Map == <<"M", "a", "p">>
S_nmxp == <<"n", "m", "x", "p">>
S_open == <<"(">>
S_group == <<"n", "(", ".", ")", "a">>
S_path == <<"/", "n">>
S_maps == <<"m", "a", "p", "s">>
S_network == <<"n", "e", "t", "w", "o", "r", "k">>
S_Network == <<"N", "e", "t", "w", "o", "r", "k">>
S_netWork == <<"n", "e", "t", "W", "o", "r", "k">>
S_networking == <<"n", "e", "t", "w", "o", "r", "k", "i", "n", "g">>
S_Web == <<"W", "e", "b">>
S_scaN == <<"s", "c", "a", "N">>
S_Scan == <<"S", "c", "a", "n">>
S_recon == <<"r", "e", "c", "o", "n">>
S_forensics == <<"f", "o", "r", "e", "n", "s", "i", "c", "s">>
S_web == <<"w", "e", "b">>
S_system == <<"s", "y", "s", "t", "e", "m">>
S_custom == <<"c", "u", "s", "t", "o", "m">>
S_bin == <<"/", "x">>
S_0 == <<"0">>
S_1 == <<"1">>
S_2 == <<"2">>
S_3 == <<"3">>
S_4 == <<"4">>
S_5 == <<"5">>
S_6 == <<"6">>
S_7 == <<"7">>
S_8 == <<"8">>
S_9 == <<"9">>
S_a == <<"a">>
S_s == <<"s">>
S_u == <<"u">>
S_d == <<"d">>
S_l == <<"l">>
S_e == <<"e">>
S_v == <<"v">>
S_h == <<"h">>
S_q == <<"q">>
S_x == <<"x">>
S_y == <<"y">>
S_n == <<"n">>
S_add == <<"a", "d", "d">>
S_search == <<"s", "e", "a", "r", "c", "h">>
S_update == <<"u", "p", "d", "a", "t", "e">>
S_delete == <<"d", "e", "l", "e", "t", "e">>
S_list == <<"l", "i", "s", "t">>
S_export == <<"e", "x", "p", "o", "r", "t">>
S_categories == <<"c", "a", "t", "e", "g", "o", "r", "i", "e", "s">>
S_verify == <<"v", "e", "r", "i", "f", "y">>
S_settings == <<"s", "e", "t", "t", "i", "n", "g", "s">>
S_help == <<"h", "e", "l", "p">>
S_quit == <<"q", "u", "i", "t">>
S_exit == <<"e", "x", "i", "t">>
S_yes == <<"y", "e", "s">>
S_Q_padded == <<" ", "Q", " ">>
S_Y == <<"Y">>

----------------------------------------------------------------------------
(* Tool records *)

\* the dict add_tool builds (lines 477-492), for the keys the search reads and
\* the data model names; the other keys (dates, notes, ...) are never touched
\* by the code modelled here
Tool(id, name, path, description, category, tags, verified) ==
    [id |-> id, name |-> name, path |-> path, description |-> description,
     category |-> IF category # Empty THEN category ELSE S_custom,
     tags |-> tags, verified |-> verified]

\* the tools a catalog of the model is made of
ToolPool ==
    { Tool(1, S_nmap, S_path, Empty, S_network, <<S_Scan, S_recon>>, TRUE),
      Tool(2, S_MAP, S_path, S_maps, S_Network, <<S_forensics>>, FALSE),
      Tool(3, S_nmxp, S_path, Empty, S_networking, <<>>, TRUE) }

\* the catalogs Init draws: lists of distinct tools, at most MaxTools long
Catalogs ==
    UNION { { c \in [1..n -> ToolPool] : \A i, j \in 1..n : i # j => c[i] # c[j] }
            : n \in 0..MaxTools }

\* dict.get(key, default)
Get(d, key, default) == IF key \in DOMAIN d THEN d[key] ELSE default

\* tool['_search_score'] = similarity
WithScore(tool, similarity) == ("_search_score" :> similarity) @@ tool

\* the tool dict without the key the search attaches
Persisted(tool) == [k \in DOMAIN tool \ {"_search_score"} |-> tool[k]]

----------------------------------------------------------------------------
(* The arguments Search draws *)

Queries == {Empty, S_Map, S_open, S_group}
CategoryArgs == {Empty, S_netWork}
TagArgs == {<<>>, <<S_scaN, S_Web>>}
SearchTypes == {"fuzzy", "regex", "exact", "partial"}
Fields == {"all", "name", "description", "homepage"}
Limits == (-1)..MaxLimit

\* tools as a hand-written data file can hold them (the schema asks of a tool
\* only that it is an object): every text empty, and keys missing
BlankTool == Tool(4, Empty, Empty, Empty, Empty, <<>>, FALSE)
SparseTool == [id |-> 5, name |-> S_maps]
EdgePool ==
    { Tool(1, S_nmap, S_path, Empty, S_network, <<S_Scan, S_recon>>, TRUE),
      BlankTool, SparseTool }
EdgeCatalogs ==
    UNION { { c \in [1..n -> EdgePool] : \A i, j \in 1..n : i # j => c[i] # c[j] }
            : n \in 0..MaxTools }
EdgeQueries == {Space, S_Map}
EdgeFields == {"all", "description", "tags", "verified"}
EdgeArgs ==
    [query : EdgeQueries, category : {Empty}, tags : {<<>>},
     search_type : SearchTypes, field : EdgeFields, limit : {MaxLimit}]

----------------------------------------------------------------------------
(* SearchEngine.  A list of tools is a sequence of references: indices into
   `heap`, the sequence of the catalog's dicts.  Every list the engine builds
   holds references to the catalog's own dicts. *)

\* the text a strategy searches in one tool (lines 378-381, 398-401, 417-420, 433-436)
SearchText(tool, field) ==
    IF field = "all"
    THEN Get(tool, "name", Empty) \o Space \o Get(tool, "description", Empty)
            \o Space \o Get(tool, "path", Empty)
    ELSE Get(tool, field, Empty)

\* the attributes of a tool that hold a list or a bool, not a str
NonStringKeys == {"tags", "verified"}

\* `if search_text:` - a str or list that is not empty, a bool that is True
HasText(tool, field) ==
    IF field = "verified" /\ field \in DOMAIN tool
    THEN tool[field]
    ELSE SearchText(tool, field) # Empty

\* search_text is a list or a bool and the strategy goes on to use it as a str
NotAString(tool, field) ==
    field \in NonStringKeys /\ field \in DOMAIN tool /\ HasText(tool, field)

\* the searched texts of the tools the menu of the model can build
\* every lower-cased text and query a fuzzy search of the model can compare
MenuTexts ==
    { S_MAP \o Space \o d \o Space \o p : d \in {Empty, S_maps}, p \in {S_path, S_bin} }
FuzzyTexts ==
    { Lower(SearchText(t, f)) :
        t \in ToolPool \cup EdgePool, f \in (Fields \cup EdgeFields) \ NonStringKeys }
    \cup { Lower(text) : text \in MenuTexts }
FuzzyQueries == { Lower(q) : q \in Queries \cup EdgeQueries \cup {S_0} }

\* fuzz.partial_ratio over the strings of the model, tabulated once
\* (@@ makes the table an explicit function rather than a rule applied anew
\* at every use)
SimilarityTable ==
    [p \in FuzzyQueries \X FuzzyTexts |-> PartialRatio(p[1], p[2])] @@ <<>>

\* minimum similarity score
threshold == 60

\* mutant of Similarity: a score left on the dict is reused
SimilarityCached(tool, query, field) ==
    IF "_search_score" \in DOMAIN tool THEN tool["_search_score"]
    ELSE SimilarityTable[<<Lower(query), Lower(SearchText(tool, field))>>]

\* similarity = fuzz.partial_ratio(query.lower(), search_text.lower())
Similarity(tool, query, field) ==
    SimilarityTable[<<Lower(query), Lower(SearchText(tool, field))>>]

\* mutant of FuzzyMatches: a threshold ten points lower
FuzzyMatchesLowThreshold(tool, query, field) ==
    /\ HasText(tool, field)
    /\ Similarity(tool, query, field) >= threshold - 10

\* the test of the loop body of _fuzzy_search
FuzzyMatches(tool, query, field) ==
    /\ HasText(tool, field)
    /\ Similarity(tool, query, field) >= threshold

\* _fuzzy_search: the references appended to results
fuzzy_search(heap, refs, query, field) ==
    SelectSeq(refs, LAMBDA r : FuzzyMatches(heap[r], query, field))

\* mutant of FuzzyAttach: the loop also stores the lower-cased name in the dict
FuzzyAttachLowerName(tool, query, field) ==
    [WithScore(tool, Similarity(tool, query, field)) EXCEPT !["name"] = Lower(tool["name"])]

\* what the loop body of _fuzzy_search does to a dict it appends
FuzzyAttach(tool, query, field) ==
    WithScore(tool, Similarity(tool, query, field))

\* _fuzzy_search: the catalog's dicts after the loop
fuzzy_search_heap(heap, refs, query, field) ==
    [r \in DOMAIN heap |->
        IF \E k \in DOMAIN refs : refs[k] = r /\ FuzzyMatches(heap[r], query, field)
        THEN FuzzyAttach(heap[r], query, field)
        ELSE heap[r]]

\* the test of the loop body of _regex_search
RegexMatches(tool, pattern, field) ==
    /\ HasText(tool, field)
    /\ RegexSearch(pattern, SearchText(tool, field))

\* mutant of regex_search: on re.error the list is handed back unfiltered
regex_search_unfiltered(heap, refs, pattern, field) ==
    IF RegexCompiles(pattern)
    THEN SelectSeq(refs, LAMBDA r : RegexMatches(heap[r], pattern, field))
    ELSE refs

\* _regex_search: the list returned; re.error is caught and [] returned
regex_search(heap, refs, pattern, field) ==
    IF RegexCompiles(pattern)
    THEN SelectSeq(refs, LAMBDA r : RegexMatches(heap[r], pattern, field))
    ELSE <<>>

\* mutant of ExactMatches: `in` instead of ==
ExactMatchesContains(tool, query, field) ==
    /\ HasText(tool, field)
    /\ Contains(Lower(SearchText(tool, field)), Lower(query))

\* the test of the loop body of _exact_search
ExactMatches(tool, query, field) ==
    /\ HasText(tool, field)
    /\ Lower(query) = Lower(SearchText(tool, field))

exact_search(heap, refs, query, field) ==
    SelectSeq(refs, LAMBDA r : ExactMatches(heap[r], query, field))

\* mutant of PartialMatches: the text is not lower-cased
PartialMatchesCaseSensitive(tool, query, field) ==
    /\ HasText(tool, field)
    /\ Contains(SearchText(tool, field), Lower(query))

\* the test of the loop body of _partial_search
PartialMatches(tool, query, field) ==
    /\ HasText(tool, field)
    /\ Contains(Lower(SearchText(tool, field)), Lower(query))

partial_search(heap, refs, query, field) ==
    SelectSeq(refs, LAMBDA r : PartialMatches(heap[r], query, field))

\* mutant of Strategy: fuzzy is chosen whether or not the library was imported
StrategyIgnoringLibrary(search_type, has_fuzzy) ==
    IF search_type = "fuzzy" THEN "fuzzy"
    ELSE IF search_type = "regex" THEN "regex"
    ELSE IF search_type = "exact" THEN "exact"
    ELSE "partial"

\* _apply_text_search: the strategy that runs
Strategy(search_type, has_fuzzy) ==
    IF search_type = "fuzzy" /\ has_fuzzy THEN "fuzzy"
    ELSE IF search_type = "regex" THEN "regex"
    ELSE IF search_type = "exact" THEN "exact"
    ELSE "partial"

\* _apply_text_search: the list returned
apply_text_search(heap, refs, query, search_type, field, has_fuzzy) ==
    CASE Strategy(search_type, has_fuzzy) = "fuzzy" -> fuzzy_search(heap, refs, query, field)
      [] Strategy(search_type, has_fuzzy) = "regex" -> regex_search(heap, refs, query, field)
      [] Strategy(search_type, has_fuzzy) = "exact" -> exact_search(heap, refs, query, field)
      [] OTHER -> partial_search(heap, refs, query, field)

\* the key of the sort: x.get('_search_score', 0)
SortKey(tool) == Get(tool, "_search_score", 0)

\* mutant of sort_by_relevance: reverse=True left out, smallest key first
sort_by_relevance_ascending(heap, refs) ==
    LET n == Len(refs)
        key(k) == SortKey(heap[refs[k]])
        place(k) == 1 + Cardinality({ j \in 1..n : key(j) < key(k) })
                      + Cardinality({ j \in 1..(k - 1) : key(j) = key(k) })
    IN  [p \in 1..n |-> refs[CHOOSE k \in 1..n : place(k) = p]]

\* sorted(tools, key=..., reverse=True): a stable sort, largest key first;
\* place[k] is the position in the sorted list of the k-th reference
sort_by_relevance(heap, refs) ==
    LET n == Len(refs)
        key(k) == SortKey(heap[refs[k]])
        place(k) == 1 + Cardinality({ j \in 1..n : key(j) > key(k) })
                      + Cardinality({ j \in 1..(k - 1) : key(j) = key(k) })
    IN  [p \in 1..n |-> refs[CHOOSE k \in 1..n : place(k) = p]]

\* mutant of CategoryMatches: `in` instead of ==
CategoryMatchesSubstring(tool, category) ==
    Contains(Lower(Get(tool, "category", Empty)), Lower(category))

\* the category filter (lines 340-342)
CategoryMatches(tool, category) ==
    Lower(Get(tool, "category", Empty)) = Lower(category)

\* mutant of TagsMatch: the tool's tags are not lower-cased
TagsMatchCaseSensitive(tool, tags) ==
    LET tag_set == { Lower(tags[i]) : i \in DOMAIN tags }
        tool_tags == Get(tool, "tags", <<>>)
    IN  tag_set \cap { tool_tags[i] : i \in DOMAIN tool_tags } # {}

\* the tag filter (lines 345-348): tag_set.intersection(...) is not empty
TagsMatch(tool, tags) ==
    LET tag_set == { Lower(tags[i]) : i \in DOMAIN tags }
        tool_tags == Get(tool, "tags", <<>>)
    IN  tag_set \cap { Lower(tool_tags[i]) : i \in DOMAIN tool_tags } # {}

\* mutant of filter_by_category: the stage stops at the first match
filter_by_category_first(heap, refs, category) ==
    IF category # Empty
    THEN SubSeq(SelectSeq(refs, LAMBDA r : CategoryMatches(heap[r], category)), 1,
                Min(1, Len(SelectSeq(refs, LAMBDA r : CategoryMatches(heap[r], category)))))
    ELSE refs

\* the category stage (lines 340-342)
filter_by_category(heap, refs, category) ==
    IF category # Empty
    THEN SelectSeq(refs, LAMBDA r : CategoryMatches(heap[r], category))
    ELSE refs

\* mutant of filter_by_tags: the matching tools are appended to the list
\* instead of replacing it
filter_by_tags_appending(heap, refs, tags) ==
    IF tags # <<>>
    THEN refs \o SelectSeq(refs, LAMBDA r : TagsMatch(heap[r], tags))
    ELSE refs

\* the tag stage (lines 345-348); tags is None or a list
filter_by_tags(heap, refs, tags) ==
    IF tags # <<>>
    THEN SelectSeq(refs, LAMBDA r : TagsMatch(heap[r], tags))
    ELSE refs

\* mutant of ShouldSort: the sort runs whenever the library is there
ShouldSortAlways(search_type, query, has_fuzzy) ==
    has_fuzzy

\* the condition of the relevance sort (line 355)
ShouldSort(search_type, query, has_fuzzy) ==
    search_type = "fuzzy" /\ query # Empty /\ has_fuzzy

\* mutant of Slice: results[-limit:], the tail instead of the head
SliceTail(s, limit) ==
    IF limit > 0 THEN SubSeq(s, Max(Len(s) - limit, 0) + 1, Len(s))
    ELSE s

\* results[:limit]
Slice(s, limit) ==
    IF limit >= 0 THEN SubSeq(s, 1, Min(limit, Len(s)))
    ELSE SubSeq(s, 1, Max(Len(s) + limit, 0))

\* the exception the text stage lets escape: str.lower() on a list or a bool
\* is an AttributeError, regex.search on one a TypeError, neither is caught;
\* the tools before the first such tool were skipped, their value being falsy
text_error(heap, refs, query, search_type, field, has_fuzzy) ==
    IF query = Empty \/ ~\E k \in DOMAIN refs : NotAString(heap[refs[k]], field)
    THEN "none"
    ELSE IF Strategy(search_type, has_fuzzy) = "regex"
    THEN IF RegexCompiles(query) THEN "TypeError" ELSE "none"
    ELSE "AttributeError"

\* search_tools, stage by stage: the references held after each stage, the
\* catalog's dicts when the call returns or raises, the list returned (none
\* when it raises) and the exception raised
search_tools(heap, a, has_fuzzy) ==
    LET copy == [i \in 1..Len(heap) |-> i]
        by_category == filter_by_category(heap, copy, a.category)
        by_tags == filter_by_tags(heap, by_category, a.tags)
        raised == text_error(heap, by_tags, a.query, a.search_type, a.field, has_fuzzy)
        by_text == IF raised # "none" THEN <<>>
                   ELSE IF a.query # Empty
                   THEN apply_text_search(heap, by_tags, a.query, a.search_type, a.field, has_fuzzy)
                   ELSE by_tags
        heap1 == IF raised = "none" /\ a.query # Empty
                    /\ Strategy(a.search_type, has_fuzzy) = "fuzzy"
                 THEN fuzzy_search_heap(heap, by_tags, a.query, a.field)
                 ELSE heap
        ranked == IF ShouldSort(a.search_type, a.query, has_fuzzy)
                  THEN sort_by_relevance(heap1, by_text)
                  ELSE by_text
        refs == Slice(ranked, a.limit)
    IN  [heap |-> heap1,
         by_category |-> by_category,
         by_tags |-> by_tags,
         by_text |-> by_text,
         ranked |-> ranked,
         refs |-> refs,
         returned |-> [k \in 1..Len(refs) |-> heap1[refs[k]]],
         printed |-> IF a.query # Empty /\ Strategy(a.search_type, has_fuzzy) = "regex"
                        /\ ~RegexCompiles(a.query)
                     THEN "Invalid regex pattern" ELSE "",
         raised |-> raised]

----------------------------------------------------------------------------
(* DataManager: the data file and its backups.  `dm` is the data manager and
   the files it owns: [tools, categories, data_file, file_exists, backups,
   now, config]. *)

\* the set of the elements of a list
Range(s) == { s[i] : i \in DOMAIN s }

\* _load_config: "backup_retention": 5
DefaultRetention == 5

default_config == [backup_retention |-> DefaultRetention]

\* _create_default_data: "categories"
default_categories == <<S_network, S_forensics, S_web, S_system, S_custom>>

\* sorted(BACKUP_DIR.glob("tools_backup_*.json")): the names sort as their timestamps
RECURSIVE Sorted(_)
Sorted(S) ==
    IF S = {} THEN <<>>
    ELSE LET first == CHOOSE x \in S : \A y \in S : x <= y
         IN  <<first>> \o Sorted(S \ {first})

\* _cleanup_old_backups: the files left in BACKUP_DIR
cleanup_old_backups(files, cfg) ==
    LET backup_files == Sorted(files)
        retention_count == Get(cfg, "backup_retention", DefaultRetention)
    IN  IF Len(backup_files) > retention_count
        THEN files \ Range(Slice(backup_files, 0 - retention_count))
        ELSE files

\* _create_backup: shutil.copy2 to tools_backup_<timestamp>.json (a file of
\* that name is overwritten), then the cleanup
create_backup(files, exists, timestamp, cfg) ==
    IF ~exists THEN files
    ELSE cleanup_old_backups(files \cup {timestamp}, cfg)

\* json.dump of the catalog, every key of every dict
json_dump(heap) == heap

\* DataManager.save_data: the backup when the data file exists, then the
\* write.  `ok` is whether opening and writing the file succeeds; when it
\* does not, the exception is caught and False returned.
save_data(dm, ok) ==
    LET files == IF dm.file_exists
                 THEN create_backup(dm.backups, dm.file_exists, dm.now, dm.config)
                 ELSE dm.backups
    IN  IF ok
        THEN [dm EXCEPT !.backups = files, !.data_file = json_dump(dm.tools),
                        !.file_exists = TRUE]
        ELSE [dm EXCEPT !.backups = files]

----------------------------------------------------------------------------
(* ToolManager *)

\* the paths that exist and are executable on the machine of the model
Executables == {S_path}

\* _verify_tool_path
verify_tool_path(path) == path \in Executables

\* mutant of tool_exists: names are compared as written
tool_exists_case_sensitive(heap, name) ==
    \E i \in DOMAIN heap : heap[i]["name"] = name

\* _tool_exists
tool_exists(heap, name) ==
    \E i \in DOMAIN heap : Lower(heap[i]["name"]) = Lower(name)

\* get_tool_by_name: the position of the first tool of that name, 0 for None
get_tool_by_name(heap, name) ==
    IF \E i \in DOMAIN heap : Lower(heap[i]["name"]) = Lower(name)
    THEN CHOOSE i \in DOMAIN heap :
            /\ Lower(heap[i]["name"]) = Lower(name)
            /\ \A j \in 1..(i - 1) : Lower(heap[j]["name"]) # Lower(name)
    ELSE 0

\* add_tool(name, path, description, category, tags); `id` is the uuid4 drawn
\* when the dict is built, `issued` tells whether it was drawn
add_tool(dm, id, a, ok) ==
    IF a.name = Empty \/ a.path = Empty
    THEN [value |-> FALSE, dm |-> dm, issued |-> FALSE]
    ELSE IF tool_exists(dm.tools, a.name)
    THEN [value |-> FALSE, dm |-> dm, issued |-> FALSE]
    ELSE LET tool == Tool(id, a.name, a.path, a.description, a.category, a.tags,
                          verify_tool_path(a.path))
             dm1 == [dm EXCEPT
                        !.tools = Append(@, tool),
                        !.categories =
                            IF a.category # Empty /\ a.category \notin Range(@)
                            THEN Append(@, a.category) ELSE @]
         IN  [value |-> ok, dm |-> save_data(dm1, ok), issued |-> TRUE]

\* update_tool(name, **kwargs).  kwargs is [vals, nones]: vals maps the
\* keywords given a value to it, nones is the set of keywords given None.
\* A keyword `name` collides with the parameter `name`: the call raises
\* TypeError before the body runs.
update_tool(dm, name, kwargs, ok) ==
    LET i == get_tool_by_name(dm.tools, name)
    IN  IF "name" \in DOMAIN kwargs.vals \cup kwargs.nones
        THEN [value |-> FALSE, raised |-> "TypeError", dm |-> dm]
        ELSE IF i = 0
        THEN [value |-> FALSE, raised |-> "none", dm |-> dm]
        ELSE LET tool == dm.tools[i]
                 updated == [key \in DOMAIN tool |->
                                IF key \in DOMAIN kwargs.vals
                                THEN kwargs.vals[key] ELSE tool[key]]
                 verified ==
                    IF "path" \in DOMAIN kwargs.vals
                    THEN [updated EXCEPT !["verified"] = verify_tool_path(kwargs.vals["path"])]
                    ELSE IF "path" \in kwargs.nones
                    THEN [updated EXCEPT !["verified"] = FALSE]
                    ELSE updated
                 dm1 == [dm EXCEPT !.tools = [@ EXCEPT ![i] = verified]]
             IN  [value |-> ok, raised |-> "none", dm |-> save_data(dm1, ok)]

\* mutant of delete_tool: the confirm flag is not looked at
delete_tool_unconfirmed(dm, name, confirm, ok) ==
    IF get_tool_by_name(dm.tools, name) = 0
    THEN [value |-> FALSE, dm |-> dm]
    ELSE LET dm1 == [dm EXCEPT
                        !.tools = SelectSeq(@, LAMBDA t : Lower(t["name"]) # Lower(name))]
         IN  [value |-> ok, dm |-> save_data(dm1, ok)]

\* delete_tool(name, confirm)
delete_tool(dm, name, confirm, ok) ==
    IF get_tool_by_name(dm.tools, name) = 0
    THEN [value |-> FALSE, dm |-> dm]
    ELSE IF ~confirm
    THEN [value |-> FALSE, dm |-> dm]
    ELSE LET dm1 == [dm EXCEPT
                        !.tools = SelectSeq(@, LAMBDA t : Lower(t["name"]) # Lower(name))]
         IN  [value |-> ok, dm |-> save_data(dm1, ok)]

\* the characters of the model in the order of their code points
CodePoints ==
    <<" ", "(", ")", ".", "/", "0", "A", "M", "N", "P", "Q", "S", "W",
      "a", "b", "c", "e", "f", "g", "i", "k", "m", "n", "o", "p", "r", "s", "t",
      "u", "w", "x", "y">>

\* ord(c), up to the order
Ord(c) == CHOOSE i \in DOMAIN CodePoints : CodePoints[i] = c

\* a < b on str: the first difference decides, a proper prefix is smaller
StrLess(a, b) ==
    \E i \in 1..(Len(b)) :
        /\ i <= Len(a) + 1
        /\ \A k \in 1..(i - 1) : a[k] = b[k]
        /\ i = Len(a) + 1 \/ Ord(a[i]) < Ord(b[i])

\* the keys list_tools sorts by
SortKeys == {"name", "category", "date_added", "last_modified"}

\* tools.sort(key=lambda x: x.get(sort_by, ""), reverse=reverse): a stable
\* sort, also when reversed
list_sort(heap, refs, sort_by, reverse) ==
    LET n == Len(refs)
        key(k) == Get(heap[refs[k]], sort_by, Empty)
        before(j, k) == IF reverse THEN StrLess(key(k), key(j)) ELSE StrLess(key(j), key(k))
        place(k) == 1 + Cardinality({ j \in 1..n : before(j, k) })
                      + Cardinality({ j \in 1..(k - 1) : key(j) = key(k) })
    IN  [p \in 1..n |-> refs[CHOOSE k \in 1..n : place(k) = p]]

\* list_tools(category, sort_by, reverse, limit), stage by stage; the list is
\* a copy, the catalog is not written.  a.limit_given is FALSE for limit=None.
list_tools(heap, a) ==
    LET copy == [i \in 1..Len(heap) |-> i]
        by_category == IF a.category # Empty
                       THEN SelectSeq(copy, LAMBDA r :
                                Lower(Get(heap[r], "category", Empty)) = Lower(a.category))
                       ELSE copy
        sorted == IF a.sort_by \in SortKeys
                  THEN list_sort(heap, by_category, a.sort_by, a.reverse)
                  ELSE by_category
        refs == IF a.limit_given /\ a.limit # 0
                THEN Slice(sorted, a.limit)
                ELSE sorted
    IN  [by_category |-> by_category, sorted |-> sorted, refs |-> refs,
         returned |-> [k \in 1..Len(refs) |-> heap[refs[k]]]]

\* the arguments ListTools draws
ListArgs ==
    [category : CategoryArgs, sort_by : {"name", "category", "path"},
     reverse : BOOLEAN, limit_given : BOOLEAN, limit : Limits]

\* the arguments AddTool, UpdateTool and DeleteTool draw
AddArgs ==
    [name : {Empty, S_MAP, S_Map, S_nmap}, path : {Empty, S_path},
     description : {Empty}, category : {Empty, S_Web}, tags : {<<>>}]
LookupNames == {S_Map, S_nmap, S_nmxp}
UpdateKwargs ==
    { [vals |-> ("path" :> S_bin), nones |-> {"description"}],
      [vals |-> ("id" :> 0), nones |-> {}],
      [vals |-> ("homepage" :> S_maps), nones |-> {}],
      [vals |-> ("name" :> S_nmxp), nones |-> {}] }
\* update --category, as the command line hands it on
CategoryKwargs ==
    { [vals |-> ("category" :> S_recon), nones |-> {}],
      [vals |-> ("category" :> S_web), nones |-> {}] }

----------------------------------------------------------------------------
(* State machine *)

NoCall == [op |-> "none"]
NoRet == [op |-> "none"]

\* the locals of the menu handlers, before any prompt is answered
EmptyForm ==
    [name |-> Empty, path |-> Empty, description |-> Empty, category |-> Empty,
     tags |-> <<>>]

\* no MenuInterface: the command-line mode
NoMenu == [running |-> FALSE, at |-> "none", form |-> EmptyForm]

\* standard input with lines still to come
OpenInput == [eof |-> FALSE, at |-> "none"]

SearchArgs ==
    [query : Queries, category : CategoryArgs, tags : TagArgs,
     search_type : SearchTypes, field : Fields, limit : Limits]

\* the data manager and its files, in the current state
DM ==
    [tools |-> tools, categories |-> categories, data_file |-> data_file,
     file_exists |-> file_exists, backups |-> backups, now |-> now, config |-> config]

\* the data manager and its files become dm
Becomes(dm) ==
    /\ tools' = dm.tools
    /\ categories' = dm.categories
    /\ data_file' = dm.data_file
    /\ file_exists' = dm.file_exists
    /\ backups' = dm.backups
    /\ UNCHANGED <<now, config>>

\* a catalog loaded from an existing data file
Init ==
    /\ tools \in Catalogs
    /\ categories = default_categories
    /\ data_file = tools
    /\ file_exists = TRUE
    /\ backups = {}
    /\ now = 0
    /\ config = default_config
    /\ next_id = Cardinality(ToolPool) + 1
    /\ HAS_FUZZY \in BOOLEAN
    /\ call = NoCall
    /\ ret = NoRet
    /\ menu = NoMenu
    /\ stdin = OpenInput

\* ToolManager.search_tools(**kwargs) on the catalog, up to the return or the raise
SearchOver(Args) ==
    /\ call = NoCall
    /\ \E a \in Args :
        \E r \in {search_tools(tools, a, HAS_FUZZY)} :
            /\ tools' = r.heap
            /\ call' = [op |-> "search", args |-> a, tools |-> tools]
            /\ ret' = [op |-> "search", returned |-> r.returned, refs |-> r.refs,
                       by_category |-> r.by_category, by_tags |-> r.by_tags,
                       by_text |-> r.by_text, ranked |-> r.ranked,
                       raised |-> r.raised, printed |-> r.printed]
    /\ UNCHANGED <<categories, data_file, file_exists, backups, now, config, next_id,
                   HAS_FUZZY, session>>

Search == SearchOver(SearchArgs)

\* the caller has rendered the result and drops it
Return ==
    /\ call # NoCall
    /\ call' = NoCall
    /\ ret' = NoRet
    /\ UNCHANGED <<tools, categories, data_file, file_exists, backups, now, config,
                   next_id, HAS_FUZZY, session>>

\* DataManager.save_data()
Save ==
    /\ call = NoCall
    /\ \E ok \in BOOLEAN :
        /\ Becomes(save_data(DM, ok))
        /\ ret' = [op |-> "save", value |-> ok]
    /\ call' = [op |-> "save", tools |-> tools, file_exists |-> file_exists,
                backups |-> backups]
    /\ UNCHANGED <<next_id, HAS_FUZZY, session>>

Next == Search \/ Return \/ Save

Spec == Init /\ [][Next]_vars

----------------------------------------------------------------------------
(* Searches over a catalog loaded from a hand-written data file, by fields
   that are not text *)

InitEdge ==
    /\ tools \in EdgeCatalogs
    /\ categories = default_categories
    /\ data_file = tools
    /\ file_exists = TRUE
    /\ backups = {}
    /\ now = 0
    /\ config = default_config
    /\ next_id = 1
    /\ HAS_FUZZY \in BOOLEAN
    /\ call = NoCall
    /\ ret = NoRet
    /\ menu = NoMenu
    /\ stdin = OpenInput

EdgeSearch == SearchOver(EdgeArgs)

NextEdge == EdgeSearch \/ Return \/ Save

SpecEdge == InitEdge /\ [][NextEdge]_vars

----------------------------------------------------------------------------
(* The catalog built from nothing by add_tool, update_tool and delete_tool *)

InitCatalog ==
    /\ tools = <<>>
    /\ categories = default_categories
    /\ data_file = <<>>
    /\ file_exists = FALSE
    /\ backups = {}
    /\ now = 0
    /\ config = default_config
    /\ next_id = 1
    /\ HAS_FUZZY = TRUE
    /\ call = NoCall
    /\ ret = NoRet
    /\ menu = NoMenu
    /\ stdin = OpenInput

\* ToolManager.add_tool(...)
AddTool ==
    /\ call = NoCall
    /\ \E a \in AddArgs, ok \in BOOLEAN :
        \E r \in {add_tool(DM, next_id, a, ok)} :
            /\ r.issued => next_id <= MaxAdds
            /\ Becomes(r.dm)
            /\ next_id' = IF r.issued THEN next_id + 1 ELSE next_id
            /\ call' = [op |-> "add", args |-> a, tools |-> tools,
                        categories |-> categories]
            /\ ret' = [op |-> "add", value |-> r.value]
    /\ UNCHANGED <<HAS_FUZZY, session>>

\* ToolManager.update_tool(name, **kwargs)
UpdateOver(Kwargs) ==
    /\ call = NoCall
    /\ \E name \in LookupNames, kwargs \in Kwargs, ok \in BOOLEAN :
        \E r \in {update_tool(DM, name, kwargs, ok)} :
            /\ Becomes(r.dm)
            /\ call' = [op |-> "update", name |-> name, kwargs |-> kwargs,
                        tools |-> tools, categories |-> categories]
            /\ ret' = [op |-> "update", value |-> r.value, raised |-> r.raised]
    /\ UNCHANGED <<next_id, HAS_FUZZY, session>>

\* ToolManager.delete_tool(name, confirm)
DeleteTool ==
    /\ call = NoCall
    /\ \E name \in LookupNames, confirm \in BOOLEAN, ok \in BOOLEAN :
        \E r \in {delete_tool(DM, name, confirm, ok)} :
            /\ Becomes(r.dm)
            /\ call' = [op |-> "delete", name |-> name, confirm |-> confirm,
                        tools |-> tools, categories |-> categories]
            /\ ret' = [op |-> "delete", value |-> r.value]
    /\ UNCHANGED <<next_id, HAS_FUZZY, session>>

UpdateTool == UpdateOver(UpdateKwargs)

NextCatalog == AddTool \/ UpdateTool \/ DeleteTool \/ Save \/ Return

SpecCatalog == InitCatalog /\ [][NextCatalog]_vars

----------------------------------------------------------------------------
(* The catalog and its category list under add, update --category and delete *)

UpdateCategory == UpdateOver(CategoryKwargs)

NextCategory == AddTool \/ UpdateCategory \/ DeleteTool \/ Save \/ Return

SpecCategory == InitCatalog /\ [][NextCategory]_vars

----------------------------------------------------------------------------
(* Listings of a loaded catalog *)

\* ToolManager.list_tools(...)
ListTools ==
    /\ call = NoCall
    /\ \E a \in ListArgs :
        \E r \in {list_tools(tools, a)} :
            /\ call' = [op |-> "list", args |-> a, tools |-> tools]
            /\ ret' = [op |-> "list", returned |-> r.returned, refs |-> r.refs,
                       by_category |-> r.by_category, sorted |-> r.sorted]
    /\ UNCHANGED <<tools, categories, data_file, file_exists, backups, now, config,
                   next_id, HAS_FUZZY, session>>

NextList == ListTools \/ Return \/ Save

SpecList == Init /\ [][NextList]_vars

----------------------------------------------------------------------------
(* MenuInterface: the interactive loop, one step per prompt.  menu.at is the
   prompt the loop waits at, menu.form the locals of the handler it is in. *)

\* str.strip(), for the spaces of the model
Strip(s) ==
    LET inked == { i \in DOMAIN s : s[i] # " " }
    IN  IF inked = {} THEN Empty
        ELSE SubSeq(s, CHOOSE i \in inked : \A j \in inked : i <= j,
                       CHOOSE i \in inked : \A j \in inked : i >= j)

\* mutant of get_user_choice: end-of-file is answered like Ctrl-C, with ""
get_user_choice_empty_on_eof(line, at_eof) ==
    IF at_eof THEN Empty ELSE Strip(line)

\* get_user_choice: input(prompt).strip(), and "0" when input() raises EOFError
get_user_choice(line, at_eof) ==
    IF at_eof THEN S_0 ELSE Strip(line)

\* confirm_action, given what get_user_choice returned
confirm_action(response) == Lower(response) \in {S_y, S_yes}

\* the choices of the main menu (run)
AddWords == {S_1, S_a, S_add}
SearchWords == {S_2, S_s, S_search}
UpdateWords == {S_3, S_u, S_update}
DeleteWords == {S_4, S_d, S_delete}
ListWords == {S_5, S_l, S_list}
ExportWords == {S_6, S_e, S_export}
CategoriesWords == {S_7, S_categories}
VerifyWords == {S_8, S_v, S_verify}
SettingsWords == {S_9, S_settings}
HelpWords == {S_h, S_help}
QuitWords == {S_0, S_q, S_quit, S_exit}

\* the prompt the main loop goes to on a choice; "main" when the handler asks
\* nothing or the choice is invalid
Dispatch(choice) ==
    IF choice \in AddWords THEN "add_name"
    ELSE IF choice \in SearchWords THEN "search_query"
    ELSE IF choice \in UpdateWords THEN "update_name"
    ELSE IF choice \in DeleteWords THEN "delete_name"
    ELSE IF choice \in ListWords THEN "list_category"
    ELSE IF choice \in ExportWords THEN "export_format"
    ELSE "main"

\* the paths that exist on the machine of the model
ExistingPaths == Executables \cup {S_bin}

\* verify_tools_menu: the loop over the tools
verify_tools(heap) ==
    [i \in DOMAIN heap |->
        IF (Get(heap[i], "path", Empty) \in ExistingPaths) # Get(heap[i], "verified", FALSE)
        THEN [heap[i] EXCEPT !["verified"] = (heap[i]["path"] \in ExistingPaths)]
        ELSE heap[i]]

\* the lines a user types at each prompt of the model
MainLines ==
    {S_1, S_2, S_3, S_4, S_5, S_6, S_7, S_8, S_9, S_h, S_0, S_q, S_quit, S_exit,
     S_Q_padded, S_x, Empty}
ConfirmLines == {S_Y, S_n}
Lines(at) ==
    CASE at = "main" -> MainLines
      [] at = "add_name" -> {Empty, S_MAP}
      [] at = "add_path" -> {Empty, S_path}
      [] at \in {"update_name", "delete_name"} -> {Empty, S_Map, S_nmxp}
      [] at = "update_path" -> {Empty, S_bin}
      [] at = "update_description" -> {Empty, S_maps}
      [] at \in {"add_confirm", "update_confirm", "delete_confirm"} -> ConfirmLines
      [] at = "search_query" -> {Empty, S_0}
      [] at = "export_format" -> {S_1, S_x}
      [] OTHER -> {Empty}

\* the arguments search_tools_menu and list_tools_menu hand on
MenuSearchArgs(query) ==
    [query |-> query, category |-> Empty, tags |-> <<>>, search_type |-> "fuzzy",
     field |-> "all", limit |-> 10]
MenuListArgs(category) ==
    [category |-> category, sort_by |-> "name", reverse |-> FALSE,
     limit_given |-> FALSE, limit |-> 0]

\* the keywords update_tool_menu collects
MenuUpdates(form) ==
    [vals |-> [key \in { k \in {"path", "description"} : form[k] # Empty } |-> form[key]],
     nones |-> {}]

\* a prompt is answered: by `line`, or by end-of-file when `at_eof`
Prompted(line, at_eof) ==
    /\ call' = [op |-> "prompt", at |-> menu.at, eof |-> at_eof,
                line |-> IF at_eof THEN Empty ELSE line,
                tools |-> tools, categories |-> categories]
    /\ ret' = NoRet
    /\ stdin' = [eof |-> at_eof,
                 at |-> IF stdin.eof THEN stdin.at
                        ELSE IF at_eof THEN menu.at ELSE "none"]

\* the handler returns to the main loop
BackToMain == menu' = [menu EXCEPT !.at = "main", !.form = EmptyForm]

\* the handler goes on to its next prompt, keeping `value` in its local `key`
GoOn(next, key, value) == menu' = [menu EXCEPT !.at = next, !.form[key] = value]

DataUnchanged ==
    UNCHANGED <<tools, categories, data_file, file_exists, backups, now, config>>

\* a catalog loaded from an existing data file, and the menu at its first prompt
InitMenu ==
    /\ tools = <<>>
    /\ categories = default_categories
    /\ data_file = <<>>
    /\ file_exists \in BOOLEAN
    /\ backups = {}
    /\ now = 0
    /\ config = default_config
    /\ next_id = 1
    /\ HAS_FUZZY \in BOOLEAN
    /\ call = NoCall
    /\ ret = NoRet
    /\ menu = [running |-> TRUE, at |-> "main", form |-> EmptyForm]
    /\ stdin = OpenInput

\* run: one turn of the loop, up to the handler's first prompt; the handlers
\* that ask nothing run to their end
MainMenu ==
    /\ menu.running
    /\ menu.at = "main"
    /\ \E line \in Lines(menu.at), at_eof \in BOOLEAN, ok \in BOOLEAN :
        /\ stdin.eof => at_eof
        /\ \E choice \in {Lower(get_user_choice(line, at_eof))} :
            /\ Prompted(line, at_eof)
            /\ IF choice \in VerifyWords
               THEN Becomes(save_data([DM EXCEPT !.tools = verify_tools(@)], ok))
               ELSE DataUnchanged
            /\ menu' = IF choice \in QuitWords
                       THEN [menu EXCEPT !.running = FALSE]
                       ELSE [menu EXCEPT !.at = Dispatch(choice)]
    /\ UNCHANGED <<next_id, HAS_FUZZY>>

\* add_tool_menu, prompt by prompt
AddToolMenu ==
    /\ menu.running
    /\ menu.at \in {"add_name", "add_path", "add_description", "add_category",
                    "add_tags", "add_usage", "add_notes", "add_confirm"}
    /\ \E line \in Lines(menu.at), at_eof \in BOOLEAN, ok \in BOOLEAN :
        /\ stdin.eof => at_eof
        /\ \E text \in {get_user_choice(line, at_eof)} :
            /\ Prompted(line, at_eof)
            /\ CASE menu.at = "add_name" ->
                      /\ IF text = Empty THEN BackToMain ELSE GoOn("add_path", "name", text)
                      /\ DataUnchanged /\ UNCHANGED next_id
                 [] menu.at = "add_path" ->
                      /\ IF text = Empty THEN BackToMain
                         ELSE GoOn("add_description", "path", text)
                      /\ DataUnchanged /\ UNCHANGED next_id
                 [] menu.at = "add_description" ->
                      GoOn("add_category", "description", text)
                      /\ DataUnchanged /\ UNCHANGED next_id
                 [] menu.at = "add_category" ->
                      GoOn("add_tags", "category", text)
                      /\ DataUnchanged /\ UNCHANGED next_id
                 [] menu.at = "add_tags" ->
                      GoOn("add_usage", "tags", IF text = Empty THEN <<>> ELSE <<text>>)
                      /\ DataUnchanged /\ UNCHANGED next_id
                 [] menu.at = "add_usage" ->
                      menu' = [menu EXCEPT !.at = "add_notes"]
                      /\ DataUnchanged /\ UNCHANGED next_id
                 [] menu.at = "add_notes" ->
                      menu' = [menu EXCEPT !.at = "add_confirm"]
                      /\ DataUnchanged /\ UNCHANGED next_id
                 [] OTHER ->
                      /\ BackToMain
                      /\ IF confirm_action(text)
                         THEN \E r \in {add_tool(DM, next_id, menu.form, ok)} :
                                /\ r.issued => next_id <= MaxAdds
                                /\ Becomes(r.dm)
                                /\ next_id' = IF r.issued THEN next_id + 1 ELSE next_id
                         ELSE DataUnchanged /\ UNCHANGED next_id
    /\ UNCHANGED HAS_FUZZY

\* search_tools_menu
SearchToolsMenu ==
    /\ menu.running
    /\ menu.at = "search_query"
    /\ \E line \in Lines(menu.at), at_eof \in BOOLEAN :
        /\ stdin.eof => at_eof
        /\ \E query \in {get_user_choice(line, at_eof)} :
            /\ Prompted(line, at_eof)
            /\ BackToMain
            /\ tools' = IF query = Empty THEN tools
                        ELSE search_tools(tools, MenuSearchArgs(query), HAS_FUZZY).heap
    /\ UNCHANGED <<categories, data_file, file_exists, backups, now, config, next_id,
                   HAS_FUZZY>>

\* update_tool_menu, prompt by prompt
UpdateToolMenu ==
    /\ menu.running
    /\ menu.at \in {"update_name", "update_path", "update_description", "update_confirm"}
    /\ \E line \in Lines(menu.at), at_eof \in BOOLEAN, ok \in BOOLEAN :
        /\ stdin.eof => at_eof
        /\ \E text \in {get_user_choice(line, at_eof)} :
            /\ Prompted(line, at_eof)
            /\ CASE menu.at = "update_name" ->
                      /\ IF text = Empty \/ get_tool_by_name(tools, text) = 0
                         THEN BackToMain ELSE GoOn("update_path", "name", text)
                      /\ DataUnchanged
                 [] menu.at = "update_path" ->
                      GoOn("update_description", "path", text) /\ DataUnchanged
                 [] menu.at = "update_description" ->
                      /\ IF menu.form.path = Empty /\ text = Empty THEN BackToMain
                         ELSE GoOn("update_confirm", "description", text)
                      /\ DataUnchanged
                 [] OTHER ->
                      /\ BackToMain
                      /\ IF confirm_action(text)
                         THEN Becomes(update_tool(DM, menu.form.name,
                                                  MenuUpdates(menu.form), ok).dm)
                         ELSE DataUnchanged
    /\ UNCHANGED <<next_id, HAS_FUZZY>>

\* delete_tool_menu, prompt by prompt
DeleteToolMenu ==
    /\ menu.running
    /\ menu.at \in {"delete_name", "delete_confirm"}
    /\ \E line \in Lines(menu.at), at_eof \in BOOLEAN, ok \in BOOLEAN :
        /\ stdin.eof => at_eof
        /\ \E text \in {get_user_choice(line, at_eof)} :
            /\ Prompted(line, at_eof)
            /\ IF menu.at = "delete_name"
               THEN /\ IF text = Empty \/ get_tool_by_name(tools, text) = 0
                       THEN BackToMain ELSE GoOn("delete_confirm", "name", text)
                    /\ DataUnchanged
               ELSE /\ BackToMain
                    /\ IF confirm_action(text)
                       THEN Becomes(delete_tool(DM, menu.form.name, TRUE, ok).dm)
                       ELSE DataUnchanged
    /\ UNCHANGED <<next_id, HAS_FUZZY>>

\* list_tools_menu: the listing is printed, nothing is kept
ListToolsMenu ==
    /\ menu.running
    /\ menu.at = "list_category"
    /\ \E line \in Lines(menu.at), at_eof \in BOOLEAN :
        /\ stdin.eof => at_eof
        /\ \E category \in {get_user_choice(line, at_eof)} :
            /\ Prompted(line, at_eof)
            /\ list_tools(tools, MenuListArgs(category)).refs \in Seq(DOMAIN tools)
            /\ BackToMain
    /\ DataUnchanged
    /\ UNCHANGED <<next_id, HAS_FUZZY>>

\* export_menu, prompt by prompt: the file written is outside the model
ExportMenu ==
    /\ menu.running
    /\ menu.at \in {"export_format", "export_filename"}
    /\ \E line \in Lines(menu.at), at_eof \in BOOLEAN :
        /\ stdin.eof => at_eof
        /\ \E text \in {get_user_choice(line, at_eof)} :
            /\ Prompted(line, at_eof)
            /\ IF menu.at = "export_format" /\ text \in {S_1, S_2, S_3}
               THEN menu' = [menu EXCEPT !.at = "export_filename"]
               ELSE BackToMain
    /\ DataUnchanged
    /\ UNCHANGED <<next_id, HAS_FUZZY>>

NextMenu ==
    \/ MainMenu \/ AddToolMenu \/ SearchToolsMenu \/ UpdateToolMenu
    \/ DeleteToolMenu \/ ListToolsMenu \/ ExportMenu

\* at end-of-file input() returns at once, so the loop does not wait
AtEof == stdin.eof /\ NextMenu

SpecMenu == InitMenu /\ [][NextMenu]_vars /\ WF_vars(AtEof)

----------------------------------------------------------------------------
(* The backup directory over time, for every retention count *)

\* the backups a start can find in BACKUP_DIR, left by earlier runs
OldBackups == 1..MaxOld

Retentions == 0..MaxRetention

InitBackup ==
    /\ tools = <<>>
    /\ categories = default_categories
    /\ data_file = <<>>
    /\ file_exists \in BOOLEAN
    /\ backups \in SUBSET OldBackups
    /\ now = MaxOld + 1
    /\ config \in [backup_retention : Retentions]
    /\ next_id = 1
    /\ HAS_FUZZY = TRUE
    /\ call = NoCall
    /\ ret = NoRet
    /\ menu = NoMenu
    /\ stdin = OpenInput

\* a second passes
Tick ==
    /\ call = NoCall
    /\ now < MaxOld + 1 + MaxTicks
    /\ now' = now + 1
    /\ UNCHANGED <<tools, categories, data_file, file_exists, backups, config, next_id,
                   HAS_FUZZY, call, ret, session>>

NextBackup == Save \/ Tick \/ Return

SpecBackup == InitBackup /\ [][NextBackup]_vars

----------------------------------------------------------------------------
(* Properties.  In a state with call.op = "search", `call` holds the
   arguments and the catalog as it was handed to search_tools, `tools` the
   catalog as the call left it, and `ret` what the call handed back. *)

Searched == call.op = "search"

HasScore(tool) == "_search_score" \in DOMAIN tool

\* the references of refs keep the order they have in the catalog
InCatalogOrder(refs) ==
    \A j, k \in DOMAIN refs : j < k => refs[j] < refs[k]

\* C1: search_tools returns at most max(limit, 0) records, for every catalog
\* and every argument, a zero or negative limit included.
C1_BoundedOutput ==
    Searched => Len(ret.returned) <= Max(call.args.limit, 0)

C3_NoScorePersisted ==
    \A i \in DOMAIN data_file : ~HasScore(data_file[i])

\* C4: a call of search_tools leaves the catalog's membership and order, and
\* every key of every tool other than the attached score, as they were.
C4_SearchFrame ==
    Searched =>
        /\ Len(tools) = Len(call.tools)
        /\ \A i \in DOMAIN tools : Persisted(tools[i]) = Persisted(call.tools[i])

\* a fuzzy search attached a score to a tool whose name has upper-case
\* letters, and returned the tools in another order than the catalog's
C4_Witness ==
    /\ Searched
    /\ \E i \in DOMAIN tools :
        /\ HasScore(tools[i]) /\ ~HasScore(call.tools[i])
        /\ tools[i]["name"] # Lower(tools[i]["name"])
    /\ ~InCatalogOrder(ret.refs)

\* C5: every record returned is a record of the catalog handed in, and no
\* record of the catalog is returned twice.
C5_SubsetNoDuplicates ==
    Searched =>
        /\ \A k \in DOMAIN ret.returned :
            \E i \in DOMAIN call.tools :
                Persisted(ret.returned[k]) = Persisted(call.tools[i])
        /\ \A j, k \in DOMAIN ret.returned :
            j # k => ret.returned[j]["id"] # ret.returned[k]["id"]

\* a search with both filters returned a tool that matches the category and
\* the tags
C5_Witness ==
    /\ Searched
    /\ call.args.category # Empty
    /\ call.args.tags # <<>>
    /\ Len(ret.returned) >= 1
    /\ Len(call.tools) = MaxTools

\* the similarity of the searched text of the catalog's r-th tool to the query
CallScore(r) ==
    PartialRatio(Lower(call.args.query),
                 Lower(SearchText(call.tools[r], call.args.field)))

\* C6: under fuzzy with a non-empty query the surviving records are in order of
\* non-increasing similarity to the query, and records of equal similarity keep
\* the order of the catalog; so do the records returned.
C6_FuzzyRanked ==
    (/\ Searched
     /\ call.args.search_type = "fuzzy"
     /\ call.args.query # Empty
     /\ ret.raised = "none")
    => /\ \A j, k \in DOMAIN ret.ranked : j < k =>
            \/ CallScore(ret.ranked[j]) > CallScore(ret.ranked[k])
            \/ /\ CallScore(ret.ranked[j]) = CallScore(ret.ranked[k])
               /\ ret.ranked[j] < ret.ranked[k]
       /\ \A j, k \in DOMAIN ret.refs : j < k =>
            \/ CallScore(ret.refs[j]) > CallScore(ret.refs[k])
            \/ /\ CallScore(ret.refs[j]) = CallScore(ret.refs[k])
               /\ ret.refs[j] < ret.refs[k]

\* a fuzzy search ranked a record scoring 100 ahead of a record scoring less
\* that precedes it in the catalog
C6_Witness ==
    /\ Searched
    /\ call.args.search_type = "fuzzy"
    /\ call.args.query # Empty
    /\ HAS_FUZZY
    /\ Len(ret.refs) = 2
    /\ ret.refs[1] > ret.refs[2]
    /\ CallScore(ret.refs[1]) = 100
    /\ CallScore(ret.refs[2]) < 100

\* C7: under regex, exact and partial, and under any search type when the
\* query is empty, the records returned are in the order of the catalog, also
\* when records carry scores of an earlier fuzzy search.
C7_NoReordering ==
    (/\ Searched
     /\ (call.args.search_type \in {"regex", "exact", "partial"} \/ call.args.query = Empty))
    => /\ InCatalogOrder(ret.ranked)
       /\ InCatalogOrder(ret.refs)

\* a search that does not rank returned two records of which the second
\* carries the higher score of an earlier fuzzy search
C7_Witness ==
    /\ Searched
    /\ call.args.search_type # "fuzzy"
    /\ Len(ret.refs) = 2
    /\ HasScore(call.tools[ret.refs[1]])
    /\ HasScore(call.tools[ret.refs[2]])
    /\ call.tools[ret.refs[1]]["_search_score"] < call.tools[ret.refs[2]]["_search_score"]

\* C8: with a category filter, the records that pass the category stage are
\* exactly those whose lower-cased category is the lower-cased filter, and
\* every record returned is one of them.
C8_CategoryExact ==
    (Searched /\ call.args.category # Empty) =>
        /\ \A i \in DOMAIN call.tools :
            (i \in Range(ret.by_category))
                <=> (Lower(call.tools[i]["category"]) = Lower(call.args.category))
        /\ \A k \in DOMAIN ret.returned :
            Lower(ret.returned[k]["category"]) = Lower(call.args.category)

\* the filter let a tool of category "Network" through and kept one of
\* category "networking" out
C8_Witness ==
    /\ Searched
    /\ call.args.category = S_netWork
    /\ \E i \in DOMAIN call.tools :
        call.tools[i]["category"] = S_Network /\ i \in Range(ret.refs)
    /\ \E i \in DOMAIN call.tools :
        call.tools[i]["category"] = S_networking /\ i \notin Range(ret.by_category)

\* C9: with a tag filter, a record passes the tag stage exactly when one of its
\* tags equals one of the query's tags after lower-casing both; a record
\* without tags never passes.
C9_TagIntersection ==
    (Searched /\ call.args.tags # <<>>) =>
        \A r \in Range(ret.by_category) :
            (r \in Range(ret.by_tags))
                <=> (\E i \in DOMAIN call.tools[r]["tags"], j \in DOMAIN call.args.tags :
                        Lower(call.tools[r]["tags"][i]) = Lower(call.args.tags[j]))

\* the filter let a tool through on a tag that differs in case from the
\* query's and kept a tool without tags out
C9_Witness ==
    /\ Searched
    /\ call.args.tags # <<>>
    /\ \E r \in Range(ret.by_tags) :
        Range(call.tools[r]["tags"]) \cap Range(call.args.tags) = {}
    /\ \E r \in Range(ret.by_category) :
        call.tools[r]["tags"] = <<>> /\ r \notin Range(ret.by_tags)

\* C10: under fuzzy with a non-empty query, a record with non-empty searched
\* text passes the text stage exactly when its similarity to the query is at
\* least 60, and no record of lower similarity is returned.
C10_FuzzyThreshold ==
    (/\ Searched
     /\ call.args.search_type = "fuzzy"
     /\ call.args.query # Empty)
    => /\ \A r \in Range(ret.by_tags) :
            SearchText(call.tools[r], call.args.field) # Empty =>
                ((r \in Range(ret.by_text)) <=> (CallScore(r) >= 60))
       /\ \A k \in DOMAIN ret.refs : CallScore(ret.refs[k]) >= 60

\* C10 (amended): the same, when a similarity library was imported (HAS_FUZZY).
C10_FuzzyThresholdWithLibrary ==
    (/\ Searched
     /\ HAS_FUZZY
     /\ call.args.search_type = "fuzzy"
     /\ call.args.query # Empty)
    => /\ \A r \in Range(ret.by_tags) :
            SearchText(call.tools[r], call.args.field) # Empty =>
                ((r \in Range(ret.by_text)) <=> (CallScore(r) >= 60))
       /\ \A k \in DOMAIN ret.refs : CallScore(ret.refs[k]) >= 60

\* a fuzzy search with the library kept a record whose similarity is at least
\* 60 and below 100, although the query is no substring of its text
C10_Witness ==
    /\ Searched
    /\ HAS_FUZZY
    /\ call.args.search_type = "fuzzy"
    /\ call.args.query # Empty
    /\ \E r \in Range(ret.refs) :
        /\ CallScore(r) >= 60 /\ CallScore(r) < 100
        /\ ~PartialMatches(call.tools[r], call.args.query, call.args.field)

----------------------------------------------------------------------------
(* The text stage, strategy by strategy *)

\* the text of the chosen field of the r-th tool handed to the call
CallText(r) ==
    LET tool == call.tools[r]
        text(key) == IF key \in DOMAIN tool THEN tool[key] ELSE Empty
    IN  IF call.args.field = "all"
        THEN text("name") \o Space \o text("description") \o Space \o text("path")
        ELSE text(call.args.field)

\* C11: under search_type = exact with a non-empty query a record passes the
\* text stage if and only if its lower-cased text equals the lower-cased query
\* as a whole string.
C11_ExactWholeString ==
    (/\ Searched
     /\ call.args.search_type = "exact"
     /\ call.args.query # Empty)
    => \A r \in Range(ret.by_tags) :
          (r \in Range(ret.by_text)) <=> (Lower(CallText(r)) = Lower(call.args.query))

\* an exact search kept the record whose name is the query in another case and
\* dropped a record whose name only contains the query
C11_Witness ==
    /\ Searched
    /\ call.args.search_type = "exact"
    /\ call.args.query # Empty
    /\ \E r \in Range(ret.by_text) : CallText(r) # call.args.query
    /\ \E r \in Range(ret.by_tags) \ Range(ret.by_text) :
          /\ CallText(r) # Empty
          /\ Contains(Lower(CallText(r)), Lower(call.args.query))

\* C12: under search_type = partial with a non-empty query a record with
\* non-empty text passes the text stage if and only if the lower-cased query
\* is a contiguous substring of the lower-cased text.
C12_PartialSubstring ==
    (/\ Searched
     /\ call.args.search_type = "partial"
     /\ call.args.query # Empty)
    => \A r \in Range(ret.by_tags) :
          CallText(r) # Empty =>
              ((r \in Range(ret.by_text))
                  <=> (\E i \in 0..(Len(CallText(r)) - Len(call.args.query)) :
                          \A k \in 1..Len(call.args.query) :
                              LowerChar(CallText(r)[i + k]) = LowerChar(call.args.query[k])))

\* a partial search kept a record whose text contains the query only when case
\* is ignored, and dropped a record whose text does not contain it
C12_Witness ==
    /\ Searched
    /\ call.args.search_type = "partial"
    /\ call.args.query # Empty
    /\ \E r \in Range(ret.by_text) :
          /\ ~Contains(CallText(r), call.args.query)
          /\ Len(CallText(r)) > Len(call.args.query)
    /\ \E r \in Range(ret.by_tags) \ Range(ret.by_text) : CallText(r) # Empty

\* C13: with an empty query the text stage removes no record, and the result
\* is the first `limit` records (none for a limit below 1) of those that pass
\* the category and tag filters, in input order.
C13_EmptyQueryFirstLimit ==
    (Searched /\ call.args.query = Empty)
    => /\ ret.by_text = ret.by_tags
       /\ ret.refs = SubSeq(ret.by_tags, 1,
                            Min(Max(call.args.limit, 0), Len(ret.by_tags)))

\* the chosen field of the r-th tool handed to the call is empty or absent;
\* for field = all, name, description and path are
FieldEmpty(r) ==
    LET tool == call.tools[r]
        blank(key) == key \notin DOMAIN tool \/ tool[key] = Empty
    IN  IF call.args.field = "all"
        THEN blank("name") /\ blank("description") /\ blank("path")
        ELSE call.args.field \notin NonStringKeys /\ blank(call.args.field)

\* C14: with a non-empty query a record whose chosen field is empty or absent
\* never passes the text stage, under any search type, and no error is raised
\* for it; for field = all this is a record whose name, description and path
\* are all empty.
C14_EmptyFieldNeverPasses ==
    (Searched /\ call.args.query # Empty /\ call.args.field \notin NonStringKeys)
    => /\ ret.raised = "none"
       /\ \A r \in Range(ret.by_tags) : FieldEmpty(r) => r \notin Range(ret.by_text)

\* C15: search_tools raises nothing unless search_type = regex and the query
\* is a malformed pattern, whatever the field, a list or bool attribute
\* included.
C15_RaisesOnlyOnBadPattern ==
    (/\ Searched
     /\ ~(call.args.search_type = "regex" /\ ~RegexCompiles(call.args.query)))
    => ret.raised = "none"

----------------------------------------------------------------------------
(* Truncation and determinism *)

\* C16: for limit >= 0 the result is the prefix of length min(limit, n) of the
\* n surviving records in the order the filters (and, for fuzzy, the ranking)
\* left them.
C16_PrefixOfSurvivors ==
    (Searched /\ call.args.limit >= 0 /\ ret.raised = "none")
    => /\ Len(ret.refs) = Min(call.args.limit, Len(ret.ranked))
       /\ \A k \in DOMAIN ret.refs : ret.refs[k] = ret.ranked[k]
       /\ \A k \in DOMAIN ret.refs : Persisted(ret.returned[k]) = Persisted(call.tools[ret.ranked[k]])

\* a search with limit 1 had two survivors and returned the first of them
C16_Witness ==
    /\ Searched
    /\ call.args.limit = 1
    /\ Len(ret.ranked) = 2
    /\ ret.refs = <<ret.ranked[1]>>

\* the catalog handed to the call as a fresh load of its persisted fields
\* would give it: no score on any record
Unscored(heap) == [i \in DOMAIN heap |-> Persisted(heap[i])]

\* C17: the records returned, and their order, are those the same call
\* returns on the same records carrying no score: scores left by earlier
\* searches change neither membership nor order.
C17_Deterministic ==
    Searched =>
        LET fresh == search_tools(Unscored(call.tools), call.args, HAS_FUZZY)
        IN  /\ ret.refs = fresh.refs
            /\ ret.by_text = fresh.by_text
            /\ \A k \in DOMAIN ret.refs :
                  Persisted(ret.returned[k]) = Persisted(fresh.returned[k])

\* a search that does not rank returned two records in catalog order although
\* the scores an earlier fuzzy search left on them rank the second above the first
C17_Witness ==
    /\ Searched
    /\ ~ShouldSort(call.args.search_type, call.args.query, HAS_FUZZY)
    /\ Len(ret.refs) = 2
    /\ HasScore(call.tools[ret.refs[1]])
    /\ HasScore(call.tools[ret.refs[2]])
    /\ call.tools[ret.refs[1]]["_search_score"] < call.tools[ret.refs[2]]["_search_score"]

----------------------------------------------------------------------------
(* The catalog under add_tool, update_tool and delete_tool *)

\* C18: from the empty catalog, after any add_tool, update_tool and
\* delete_tool calls, every record has a non-empty name and no two records
\* have names that are equal ignoring case.
C18_NamesUnique ==
    /\ \A i \in DOMAIN tools : tools[i]["name"] # Empty
    /\ \A i, j \in DOMAIN tools :
          i # j => Lower(tools[i]["name"]) # Lower(tools[j]["name"])

\* add_tool turned down a name that differs only in case from the name of a
\* record of a two-record catalog, and left the catalog as it was
C18_Witness ==
    /\ call.op = "add"
    /\ ~ret.value
    /\ Len(tools) = 2
    /\ tools = call.tools
    /\ \E i \in DOMAIN tools :
          /\ tools[i]["name"] # call.args.name
          /\ Lower(tools[i]["name"]) = Lower(call.args.name)

\* C19: no call to update_tool, search_tools or save_data changes the id of a
\* record: after the call every record holds the id it held before.
C19_IdImmutable ==
    call.op \in {"update", "search", "save"}
    => /\ Len(tools) = Len(call.tools)
       /\ \A i \in DOMAIN tools : tools[i]["id"] = call.tools[i]["id"]

----------------------------------------------------------------------------
(* Backups *)

\* C20: after a save_data over an existing data file the number of backup
\* files is at most backup_retention, whatever its value, 0 included, and the
\* files kept are the most recent ones.
C20_RetentionBound ==
    (call.op = "save" /\ call.file_exists)
    => /\ Cardinality(backups) <= config.backup_retention
       /\ \A kept \in backups :
             \A dropped \in (call.backups \cup {now}) \ backups : dropped < kept

----------------------------------------------------------------------------
(* The stages of search_tools against each other *)

\* the boolean text filter of the call, exact or partial, on a list of references
CallTextFilter(refs) ==
    IF call.args.search_type = "exact"
    THEN exact_search(call.tools, refs, call.args.query, call.args.field)
    ELSE partial_search(call.tools, refs, call.args.query, call.args.field)

\* the r-th tool handed to the call satisfies the category, tag and text
\* predicates of the call (an empty category or tag list asks nothing)
CallSatisfiesAll(r) ==
    /\ call.args.category # Empty => CategoryMatches(call.tools[r], call.args.category)
    /\ call.args.tags # <<>> => TagsMatch(call.tools[r], call.args.tags)
    /\ CallText(r) # Empty
    /\ IF call.args.search_type = "exact"
       THEN Lower(CallText(r)) = Lower(call.args.query)
       ELSE Contains(Lower(CallText(r)), Lower(call.args.query))

\* C21: the category filter, the tag filter and the exact or partial text
\* filter give the same list in each of their six orders: the records that
\* satisfy all three predicates, in input order.
C21_FiltersCommute ==
    (/\ Searched
     /\ call.args.search_type \in {"exact", "partial"}
     /\ call.args.query # Empty)
    => LET all == [i \in 1..Len(call.tools) |-> i]
           c(refs) == filter_by_category(call.tools, refs, call.args.category)
           t(refs) == filter_by_tags(call.tools, refs, call.args.tags)
           x(refs) == CallTextFilter(refs)
           expected == SelectSeq(all, CallSatisfiesAll)
       IN  /\ x(t(c(all))) = expected
           /\ x(c(t(all))) = expected
           /\ t(x(c(all))) = expected
           /\ t(c(x(all))) = expected
           /\ c(x(t(all))) = expected
           /\ c(t(x(all))) = expected
           /\ ret.by_text = expected

\* a partial search with a category and tags: each of the three filters alone
\* drops a record or keeps one the others drop, and one record passes all three
C21_Witness ==
    /\ Searched
    /\ call.args.search_type = "partial"
    /\ call.args.query # Empty
    /\ call.args.category # Empty
    /\ call.args.tags # <<>>
    /\ Len(call.tools) = 2
    /\ Len(ret.by_text) = 1
    /\ Len(CallTextFilter([i \in 1..Len(call.tools) |-> i])) = 2

\* C22: without a similarity library a fuzzy search with a non-empty query
\* keeps the records whose text contains the query, attaches no score to any
\* record and does not sort: the result is in input order.
C22_FallbackToPartial ==
    (/\ Searched
     /\ ~HAS_FUZZY
     /\ call.args.search_type = "fuzzy"
     /\ call.args.query # Empty)
    => /\ ret.by_text = SelectSeq(ret.by_tags,
                            LAMBDA r : /\ CallText(r) # Empty
                                       /\ Contains(Lower(CallText(r)), Lower(call.args.query)))
       /\ tools = call.tools
       /\ ret.ranked = ret.by_text
       /\ InCatalogOrder(ret.refs)
       /\ \A k \in DOMAIN ret.returned : ret.returned[k] = call.tools[ret.refs[k]]

\* without the library a fuzzy search dropped a record that is at least 60
\* similar to the query but does not contain it, and kept one that contains it
C22_Witness ==
    /\ Searched
    /\ ~HAS_FUZZY
    /\ call.args.search_type = "fuzzy"
    /\ call.args.query # Empty
    /\ ret.refs # <<>>
    /\ \E r \in Range(ret.by_tags) \ Range(ret.by_text) : CallScore(r) >= 60

----------------------------------------------------------------------------
(* add_tool, delete_tool and the category list *)

\* C23: whenever add_tool returns False (a missing name or path, a duplicate
\* name, a failed save) the tool list and the category list in memory are as
\* they were before the call.
C23_FailedAddLeavesCatalog ==
    (call.op = "add" /\ ~ret.value)
    => /\ tools = call.tools
       /\ categories = call.categories

\* C24: from the default catalog, after any add_tool, update_tool and
\* delete_tool calls the category of every record is in the category list.
C24_CategoriesListed ==
    \A i \in DOMAIN tools : tools[i]["category"] \in Range(categories)

\* C26: delete_tool changes the tool list only when a tool of that name
\* (ignoring case) exists and confirm is True; it then removes the records of
\* that name and keeps the others in their order; otherwise the list is as it
\* was and the call returns False.
C26_DeleteFrame ==
    call.op = "delete"
    => IF call.confirm
          /\ \E i \in DOMAIN call.tools : Lower(call.tools[i]["name"]) = Lower(call.name)
       THEN /\ \A i \in DOMAIN tools : Lower(tools[i]["name"]) # Lower(call.name)
            /\ tools = SelectSeq(call.tools, LAMBDA t : t \in Range(tools))
            /\ \A i \in DOMAIN call.tools :
                  Lower(call.tools[i]["name"]) # Lower(call.name)
                      => call.tools[i] \in Range(tools)
       ELSE /\ tools = call.tools
            /\ ~ret.value

\* a confirmed delete_tool by a name in another case removed the second record
\* of a two-record catalog and kept the first
C26_Witness ==
    /\ call.op = "delete"
    /\ call.confirm
    /\ Len(call.tools) = 2
    /\ tools = <<call.tools[1]>>
    /\ call.tools[2]["name"] # call.name

----------------------------------------------------------------------------
(* list_tools *)

\* C27: list_tools with an integer limit n >= 0 returns at most n records, the
\* first n of the filtered and sorted list, and leaves the stored list in its
\* order.
C27_ListBounded ==
    (call.op = "list" /\ call.args.limit_given /\ call.args.limit >= 0)
    => /\ Len(ret.refs) <= call.args.limit
       /\ ret.refs = SubSeq(ret.sorted, 1, Min(call.args.limit, Len(ret.sorted)))
       /\ tools = call.tools

\* C25: in the menu loop, once standard input is at end-of-file the loop
\* eventually stops (running is False) whichever prompt was active; a prompt
\* answered by end-of-file commits no add, update or delete; and 0, q, quit or
\* exit typed at the main prompt stops the loop.
C25_EofEndsLoop ==
    /\ [](call.op = "prompt" /\ call.eof
            => /\ Unscored(tools) = Unscored(call.tools)
               /\ categories = call.categories)
    /\ [](call.op = "prompt" /\ call.at = "main" /\ ~call.eof /\ call.line \in QuitWords
            => ~menu.running)
    /\ (stdin.eof ~> ~menu.running)

\* end-of-file met at the confirmation of a delete, and the loop has stopped
\* with the tool still in the catalog
C25_Witness ==
    /\ stdin.eof
    /\ stdin.at = "delete_confirm"
    /\ ~menu.running
    /\ tools # <<>>

====
